---- MODULE Spec2Model ----
(***************************************************************************)
(* A model of src/src/mine.rs: the supervisor loop of mine(), the session  *)
(* it runs over one websocket connection, the receiver task and            *)
(* process_message, and the search threads with their join and reduction.  *)
(***************************************************************************)
EXTENDS Integers, Sequences, FiniteSets, TLC

\* ------------------------------------------------------------------ bounds

\* Core ids returned by core_affinity::get_core_ids(): 0 .. NumCores-1.
NumCores == 2
\* args.buffer ranges over 0 .. MaxBuffer.
MaxBuffer == 1
\* StartMining frames the coordinator sends within one connection.
MaxJobs == 2
\* hash_timer.elapsed().as_secs() is followed up to MaxClock seconds.
MaxClock == 2

\* ------------------------------------------------------- program constants

\* let nonces_per_thread = 10_000;
nonces_per_thread == 10000
\* if nonce % 100 == 0
CheckPeriod == 100
\* if best_difficulty.ge(&8)
MinDifficulty == 8
\* if cutoff > 60 { cutoff = 55; }
CutoffLimit == 60
CutoffCap == 55
\* if b.len() < 49
MinStartMiningLen == 49

\* ------------------------------------------------------------------ frames

CoreIds == 0 .. (NumCores - 1)

\* n.to_le_bytes() of a u64 (n < 2^31 here)
RECURSIVE LeBytes(_, _)
LeBytes(n, k) == IF k = 0 THEN <<>> ELSE <<n % 256>> \o LeBytes(n \div 256, k - 1)

\* u64::from_le_bytes(bytes)
RECURSIVE FromLeBytes(_)
FromLeBytes(bytes) ==
    IF bytes = <<>> THEN 0 ELSE Head(bytes) + 256 * FromLeBytes(Tail(bytes))

\* The coordinator's StartMining frame: type 0, 32B challenge (one byte
\* value repeated), 8B cutoff, 8B nonce start, 8B nonce end.
StartMiningBytes(c, cutoff, start, end) ==
    <<0>> \o [i \in 1 .. 32 |-> c] \o LeBytes(cutoff, 8) \o LeBytes(start, 8)
          \o LeBytes(end, 8)

FrameA == StartMiningBytes(17, 1, 100, 101)
FrameB == StartMiningBytes(34, 58, 0, 1)

Binary(b) == [kind |-> "Binary", data |-> b]

\* Well-formed StartMining frames.
GoodMessages == {Binary(FrameA), Binary(FrameB)}

\* Binary frames that are no StartMining: an unknown type byte, and type-0
\* frames too short for the 57-byte layout (48, 50 and 56 bytes).
MalformedMessages ==
    {Binary(<<1, 2, 3>>), Binary(SubSeq(FrameA, 1, 48)),
     Binary(SubSeq(FrameA, 1, 50)), Binary(SubSeq(FrameA, 1, 56))}

\* Text, ping and close messages, and a binary message of no bytes.
OtherMessages ==
    {[kind |-> "Text", data |-> <<>>], [kind |-> "Ping", data |-> <<>>],
     [kind |-> "Close", data |-> <<>>], Binary(<<>>)}

InboundMessages == GoodMessages \cup MalformedMessages \cup OtherMessages

\* b[i] of a Vec<u8> (0-based); -1 stands for the index-out-of-bounds panic.
ByteAt(b, i) == IF i < Len(b) THEN b[i + 1] ELSE -1

\* for i in 0..n { out[i] = b[i + b_index]; }
ReadBytes(b, b_index, n) == [i \in 1 .. n |-> ByteAt(b, (i - 1) + b_index)]

Panics(bytes) == \E i \in 1 .. Len(bytes) : bytes[i] = -1

\* process_message: what one inbound message does to the receiver task.
\*   [flow |-> "continue" | "break" | "panic", send |-> <<job>> or <<>>]
StartMiningParse(b) ==
    LET hash_bytes == ReadBytes(b, 1, 32)
        cutoff_bytes == ReadBytes(b, 33, 8)
        nonce_start_bytes == ReadBytes(b, 41, 8)
        nonce_end_bytes == ReadBytes(b, 49, 8)
    IN  IF Panics(hash_bytes) \/ Panics(cutoff_bytes)
           \/ Panics(nonce_start_bytes) \/ Panics(nonce_end_bytes)
        THEN [flow |-> "panic", send |-> <<>>]
        ELSE [flow |-> "continue",
              send |-> << [challenge |-> hash_bytes,
                           start |-> FromLeBytes(nonce_start_bytes),
                           end |-> FromLeBytes(nonce_end_bytes),
                           cutoff |-> FromLeBytes(cutoff_bytes)] >>]

process_message(msg) ==
    CASE msg.kind = "Binary" ->
            IF ByteAt(msg.data, 0) = -1
            THEN [flow |-> "panic", send |-> <<>>]
            ELSE IF ByteAt(msg.data, 0) = 0
                 THEN IF Len(msg.data) < MinStartMiningLen
                      THEN [flow |-> "continue", send |-> <<>>]
                      ELSE StartMiningParse(msg.data)
                 ELSE [flow |-> "continue", send |-> <<>>]
      [] msg.kind = "Close" -> [flow |-> "break", send |-> <<>>]
      [] OTHER -> [flow |-> "continue", send |-> <<>>]

\* ------------------------------------------------------- cutoff adjustment

SaturatingSub(a, b) == IF a >= b THEN a - b ELSE 0

\* let mut cutoff = cutoff.saturating_sub(args.buffer as u64);
\* if cutoff > 60 { cutoff = 55; }
AdjustCutoff(cutoff, buf) ==
    LET c == SaturatingSub(cutoff, buf)
    IN  IF c > CutoffLimit THEN CutoffCap ELSE c

\* ------------------------------------------------------------ hash family

\* The difficulties of the hashes drillx_2::get_hashes_with_memory yields
\* for one (challenge, nonce): one or two hashes, of difficulty 0, below
\* the floor of 8 (7) or above it (9).
Families == {<<0>>, <<7>>, <<7, 9>>}

\* drillx_2::Hash::default(): the all-zero digest no solver produced.
DefaultHash == [d |-> <<>>, difficulty |-> 0]

\* The hashes of H(challenge, nonce) with the difficulties fam: the digest
\* of the idx-th hash is identified by what it was computed from.
Hashes(challenge, nonce, fam) ==
    [idx \in 1 .. Len(fam) |->
        [d |-> <<challenge, nonce, idx>>, difficulty |-> fam[idx]]]

\* for hx in get_hashes_with_memory(..) { total_hashes += 1; if
\* difficulty.gt(&best_difficulty) { best_* = .. } }
\* hardest records the highest difficulty among the hashes evaluated.
RECURSIVE UpdateBest(_, _, _)
UpdateBest(loc, nonce, hashes) ==
    IF hashes = <<>> THEN loc
    ELSE LET hx == Head(hashes)
             counted == [loc EXCEPT !.total_hashes = @ + 1,
                                    !.hardest = IF hx.difficulty > @
                                                THEN hx.difficulty ELSE @]
             next == IF hx.difficulty > loc.best_difficulty
                     THEN [counted EXCEPT !.best_nonce = nonce,
                                          !.best_difficulty = hx.difficulty,
                                          !.best_hash = hx]
                     ELSE counted
         IN  UpdateBest(next, nonce, Tail(hashes))

\* ------------------------------------------------------------------- state

VARIABLES
    running,      \* the AtomicBool created in mine(), line 37
    interrupted,  \* an external interrupt has been delivered to the process
    threads,      \* args.threads
    buffer,       \* args.buffer
    pc,           \* where the task running mine() stands
    rx,           \* the receiver task: none, running, closed, ended, panicked
    queue,        \* the unbounded channel of ServerMessage
    outbound,     \* frames handed to the websocket sender on this connection
    dispatched,   \* jobs taken from the channel and searched, this connection
    job,          \* the StartMining being searched
    cutoff,       \* the adjusted cutoff the threads compare against
    clock,        \* hash_timer.elapsed().as_secs()
    th,           \* the search threads, by core id
    joinIdx,      \* the next handle the join loop waits for
    acc,          \* best_nonce, best_difficulty, best_hash, total_nonces_checked
    lateFrame,    \* a message was handled with running false and the session
                  \* in recv() or awaiting the receiver task
    lastAttempt,  \* how the previous iteration of the supervisor loop ended,
                  \* until the next connection is up: none, timestamp,
                  \* connect, session
    inflight,     \* the frames whose sender.send(..) has begun and has not
                  \* returned
    mutex         \* the Mutex around the sender is locked

config == <<threads, buffer>>
flag == <<running, interrupted>>
receiver == <<rx, queue, lateFrame>>
search == <<job, cutoff, clock, th, joinIdx, acc>>
writer == <<inflight, mutex>>
session == <<pc, outbound, dispatched, lastAttempt, writer>>
vars == <<config, flag, receiver, search, session>>

NoJob == [challenge |-> <<>>, start |-> 0, end |-> 0, cutoff |-> 0]

\* A thread that does not exist (before the spawn, after the join).
Idle ==
    [pc |-> "idle", nonce |-> 0, best_nonce |-> 0, best_difficulty |-> 0,
     best_hash |-> DefaultHash, total_hashes |-> 0, ret |-> "none",
     hardest |-> 0]

\* let mut best_nonce: u64 = 0; let mut best_difficulty = 0; let mut
\* best_hash = Hash::default(); let mut total_nonces_checked = 0;
AccInit ==
    [best_nonce |-> 0, best_difficulty |-> 0, best_hash |-> DefaultHash,
     total_nonces_checked |-> 0]

Init ==
    /\ running = TRUE
    /\ interrupted = FALSE
    /\ threads \in 1 .. NumCores
    /\ buffer \in 0 .. MaxBuffer
    /\ pc = "loop_head"
    /\ rx = "none"
    /\ queue = <<>>
    /\ outbound = <<>>
    /\ dispatched = <<>>
    /\ job = NoJob
    /\ cutoff = 0
    /\ clock = 0
    /\ th = [i \in CoreIds |-> Idle]
    /\ joinIdx = 0
    /\ acc = AccInit
    /\ lateFrame = FALSE
    /\ lastAttempt = "none"
    /\ inflight = <<>>
    /\ mutex = FALSE

\* -------------------------------------------------------------- supervisor

\* loop { if !running.load(SeqCst) { break; } ..
SupervisorLoop ==
    /\ pc = "loop_head"
    /\ pc' = IF running THEN "fetch_timestamp" ELSE "exited"
    /\ UNCHANGED <<config, flag, receiver, search, outbound, dispatched,
                   lastAttempt, writer>>

\* What GET /timestamp can come back with: send() fails (no response), or
\* a response with a status and either an unreadable body (text() fails)
\* or a body, here a sequence of characters.
TimestampResponses ==
    {[sent |-> FALSE, status |-> 0, readable |-> FALSE, body |-> <<>>],
     [sent |-> TRUE, status |-> 200, readable |-> FALSE, body |-> <<>>],
     [sent |-> TRUE, status |-> 200, readable |-> TRUE, body |-> <<"1", "7">>],
     [sent |-> TRUE, status |-> 200, readable |-> TRUE, body |-> <<>>],
     [sent |-> TRUE, status |-> 200, readable |-> TRUE, body |-> <<"-", "1">>],
     [sent |-> TRUE, status |-> 404, readable |-> TRUE, body |-> <<"1", "7">>],
     [sent |-> TRUE, status |-> 503, readable |-> TRUE, body |-> <<"b", "u", "s", "y">>]}

DigitChars == <<"0", "1", "2", "3", "4", "5", "6", "7", "8", "9">>

IsDigit(c) == \E d \in 1 .. 10 : DigitChars[d] = c

DigitValue(c) == (CHOOSE d \in 1 .. 10 : DigitChars[d] = c) - 1

RECURSIVE DecimalValue(_)
DecimalValue(chars) ==
    IF chars = <<>> THEN 0
    ELSE 10 * DecimalValue(SubSeq(chars, 1, Len(chars) - 1))
         + DigitValue(chars[Len(chars)])

\* ts.parse::<u64>(): an optional '+', then one or more decimal digits
\* (values here stay far below 2^64).
ParseU64(chars) ==
    LET digits == IF chars # <<>> /\ Head(chars) = "+" THEN Tail(chars) ELSE chars
    IN  IF digits # <<>> /\ \A k \in 1 .. Len(digits) : IsDigit(digits[k])
        THEN [ok |-> TRUE, value |-> DecimalValue(digits)]
        ELSE [ok |-> FALSE, value |-> 0]

\* if let Ok(response) = client.get(..).send().await {
\*     if let Ok(ts) = response.text().await {
\*         if let Ok(ts) = ts.parse::<u64>() { ts } else { sleep 3 s; continue }
\*     } else { sleep 3 s; continue }
\* } else { sleep 3 s; continue }
\* The response's status is looked at nowhere.
TimestampOk(resp) == resp.sent /\ resp.readable /\ ParseU64(resp.body).ok

\* One GET /timestamp that comes back with resp.
TimestampFetch(resp) ==
    /\ pc = "fetch_timestamp"
    /\ pc' = IF TimestampOk(resp) THEN "connect" ELSE "loop_head"
    /\ lastAttempt' = IF TimestampOk(resp) THEN lastAttempt ELSE "timestamp"
    /\ UNCHANGED <<config, flag, receiver, search, outbound, dispatched,
                   writer>>

FetchTimestamp == \E resp \in TimestampResponses : TimestampFetch(resp)

\* connect_async(request): Err (sleep 3 s, next iteration) or Ok: split the
\* stream, create the channel, spawn the receiver task.
Connect ==
    /\ pc = "connect"
    /\ \E ok \in BOOLEAN :
          IF ok
          THEN /\ pc' = "send_ready"
               /\ rx' = "running"
               /\ queue' = <<>>
               /\ outbound' = <<>>
               /\ dispatched' = <<>>
               /\ lateFrame' = FALSE
               /\ lastAttempt' = "none"
          ELSE /\ pc' = "loop_head"
               /\ lastAttempt' = "connect"
               /\ UNCHANGED <<receiver, outbound, dispatched>>
    /\ UNCHANGED <<config, flag, search, writer>>

\* An external interrupt reaches the process. mine() registers no handler
\* and hands the flag to nothing but the search threads, which only load it.
Interrupt ==
    /\ ~interrupted
    /\ interrupted' = TRUE
    /\ UNCHANGED <<running, config, receiver, search, session>>

\* ------------------------------------------------------------ receiver task

\* Handle with the job put at the front of the channel.
Handle_Prepend(msg) ==
    LET r == process_message(msg)
    IN  /\ rx = "running"
        /\ Len(r.send) > 0 => Len(queue) + Len(dispatched) < MaxJobs
        /\ queue' = r.send \o queue
        /\ rx' = CASE r.flow = "continue" -> "running"
                   [] r.flow = "break" -> "closed"
                   [] OTHER -> "panicked"
        /\ lateFrame' = (lateFrame \/ (~running /\ pc \in {"recv", "await_receiver"}))
        /\ UNCHANGED <<config, flag, search, session>>

\* while let Some(Ok(message)) = receiver.next().await {
\*     if process_message(message, message_sender.clone()).is_break() { break; } }
\* A panic inside process_message ends the task as well.
Handle(msg) ==
    LET r == process_message(msg)
    IN  /\ rx = "running"
        /\ Len(r.send) > 0 => Len(queue) + Len(dispatched) < MaxJobs
        /\ queue' = queue \o r.send
        /\ rx' = CASE r.flow = "continue" -> "running"
                   [] r.flow = "break" -> "closed"
                   [] OTHER -> "panicked"
        /\ lateFrame' = (lateFrame \/ (~running /\ pc \in {"recv", "await_receiver"}))
        /\ UNCHANGED <<config, flag, search, session>>

ReceiveMessage == \E msg \in InboundMessages : Handle(msg)

\* receiver.next() yields None or Some(Err(_)): the while-let ends.
TransportEnd ==
    /\ rx = "running"
    /\ rx' = "ended"
    /\ UNCHANGED <<queue, lateFrame, config, flag, search, session>>

\* ------------------------------------------------------------------ session

Ready == [type |-> 0, digest |-> <<>>, nonce |-> 0]

\* bin_data[0] = 2, [1..17] = best_hash.d, [17..25] = best_nonce
BestSolution(best_hash, best_nonce) ==
    [type |-> 2, digest |-> best_hash.d, nonce |-> best_nonce]

\* sender.send(Message::Binary(bin_data)) of the first Ready begins: the
\* sender is not yet inside a Mutex.
StartReady ==
    /\ pc = "send_ready"
    /\ inflight = <<>>
    /\ inflight' = Append(inflight, Ready)
    /\ UNCHANGED <<config, flag, receiver, search, pc, outbound, dispatched,
                   lastAttempt, mutex>>

\* let _ = sender.send(Message::Binary(bin_data)).await;  (the first Ready)
\* returns; let sender = Arc::new(Mutex::new(sender));
SendReady ==
    /\ pc = "send_ready"
    /\ inflight = <<Ready>>
    /\ inflight' = <<>>
    /\ outbound' = Append(outbound, Ready)
    /\ pc' = "recv"
    /\ UNCHANGED <<config, flag, receiver, search, dispatched, lastAttempt,
                   mutex>>

\* let first_nonce = nonce_range.start + (nonces_per_thread * (i.id as u64));
FirstNonce(start, i) == start + nonces_per_thread * i

\* The thread of core i up to its loop: None when i >= threads, else the
\* locals of lines 190-195.
ThreadEntry(i, start) ==
    IF i >= threads
    THEN [Idle EXCEPT !.pc = "done", !.ret = "none"]
    ELSE [Idle EXCEPT !.pc = "loop", !.nonce = FirstNonce(start, i),
                      !.best_nonce = FirstNonce(start, i)]

\* while let Some(msg) = message_receiver.recv().await {
\*     if !running.load(SeqCst) { break; }
\*     match msg { StartMining(challenge, nonce_range, cutoff) => { adjust the
\*     cutoff, start hash_timer, spawn one thread per core id, .. } } }
SessionDequeue ==
    /\ pc = "recv"
    /\ queue # <<>>
    /\ queue' = Tail(queue)
    /\ IF ~running
       THEN /\ pc' = "await_receiver"
            /\ UNCHANGED <<search, dispatched>>
       ELSE /\ job' = Head(queue)
            /\ cutoff' = AdjustCutoff(Head(queue).cutoff, buffer)
            /\ clock' = 0
            /\ th' = [i \in CoreIds |-> ThreadEntry(i, Head(queue).start)]
            /\ joinIdx' = 0
            /\ acc' = AccInit
            /\ dispatched' = Append(dispatched, Head(queue))
            /\ pc' = "join"
    /\ UNCHANGED <<config, flag, rx, lateFrame, outbound, lastAttempt,
                   writer>>

\* recv() yields None: the channel is empty and its sender, owned by the
\* receiver task, is gone.
SessionChannelClosed ==
    /\ pc = "recv"
    /\ queue = <<>>
    /\ rx # "running"
    /\ pc' = "await_receiver"
    /\ UNCHANGED <<config, flag, receiver, search, outbound, dispatched,
                   lastAttempt, writer>>

\* AwaitReceiver with the reconnection made from where the session ended,
\* on the timestamp of the connection before.
AwaitReceiver_Reconnect ==
    /\ pc = "await_receiver"
    /\ rx # "running"
    /\ pc' = "connect"
    /\ rx' = "none"
    /\ queue' = <<>>
    /\ lateFrame' = FALSE
    /\ outbound' = <<>>
    /\ dispatched' = <<>>
    /\ lastAttempt' = "session"
    /\ UNCHANGED <<config, flag, search, writer>>

\* let _ = receiver_thread.await;  then the next iteration of the loop
AwaitReceiver ==
    /\ pc = "await_receiver"
    /\ rx # "running"
    /\ pc' = "loop_head"
    /\ rx' = "none"
    /\ queue' = <<>>
    /\ lateFrame' = FALSE
    /\ outbound' = <<>>
    /\ dispatched' = <<>>
    /\ lastAttempt' = "session"
    /\ UNCHANGED <<config, flag, search, writer>>

\* ----------------------------------------------------------- search threads

\* StopsSearch with no floor on the difficulty for the stop at the cutoff.
StopsSearch_NoFloor(nonce, end, elapsed, cut, best_difficulty) ==
    \/ nonce >= end
    \/ /\ nonce % CheckPeriod = 0
       /\ elapsed >= cut

\* if nonce >= nonce_range.end { break; }
\* if nonce % 100 == 0 { if elapsed >= cutoff { if best_difficulty >= 8 { break; } } }
StopsSearch(nonce, end, elapsed, cut, best_difficulty) ==
    \/ nonce >= end
    \/ /\ nonce % CheckPeriod = 0
       /\ elapsed >= cut
       /\ best_difficulty >= MinDifficulty

\* The head of the thread's loop: if !running.load(SeqCst) { return None; }
ThreadCheck(i) ==
    /\ pc = "join"
    /\ th[i].pc = "loop"
    /\ th' = [th EXCEPT ![i] = IF running
                               THEN [@ EXCEPT !.pc = "hash"]
                               ELSE [@ EXCEPT !.pc = "done", !.ret = "none"]]
    /\ UNCHANGED <<config, flag, receiver, session, job, cutoff, clock,
                   joinIdx, acc>>

\* The rest of one iteration: hash the nonce, keep the best, then break
\* (return Some(best_nonce, best_difficulty, best_hash, total_hashes)) or
\* nonce += 1.
ThreadHash(i) ==
    /\ pc = "join"
    /\ th[i].pc = "hash"
    /\ \E fam \in Families :
          LET loc == UpdateBest(th[i], th[i].nonce,
                                Hashes(job.challenge, th[i].nonce, fam))
          IN  th' = [th EXCEPT ![i] =
                  IF StopsSearch(loc.nonce, job.end, clock, cutoff,
                                 loc.best_difficulty)
                  THEN [loc EXCEPT !.pc = "done", !.ret = "some"]
                  ELSE [loc EXCEPT !.pc = "loop", !.nonce = @ + 1]]
    /\ UNCHANGED <<config, flag, receiver, session, job, cutoff, clock,
                   joinIdx, acc>>

\* Wall time passes while the search runs.
Tick ==
    /\ pc = "join"
    /\ clock < MaxClock
    /\ clock' = clock + 1
    /\ UNCHANGED <<config, flag, receiver, session, job, cutoff, th, joinIdx,
                   acc>>

\* Reduce that adds a thread's count only when its record becomes the best.
Reduce_CountBest(a, t) ==
    IF t.ret = "some" /\ t.best_difficulty > a.best_difficulty
    THEN [a EXCEPT !.total_nonces_checked = @ + t.total_hashes,
                   !.best_difficulty = t.best_difficulty,
                   !.best_nonce = t.best_nonce,
                   !.best_hash = t.best_hash]
    ELSE a

\* Reduce that keeps the record of the thread joined last.
Reduce_Last(a, t) ==
    IF t.ret = "some"
    THEN [a EXCEPT !.total_nonces_checked = @ + t.total_hashes,
                   !.best_difficulty = t.best_difficulty,
                   !.best_nonce = t.best_nonce,
                   !.best_hash = t.best_hash]
    ELSE a

\* if let Ok(Some((nonce, difficulty, hash, nonces_checked))) = h.join() {
\*     total_nonces_checked += nonces_checked;
\*     if difficulty > best_difficulty { best_* = .. } }
Reduce(a, t) ==
    IF t.ret = "some"
    THEN LET summed == [a EXCEPT !.total_nonces_checked = @ + t.total_hashes]
         IN  IF t.best_difficulty > a.best_difficulty
             THEN [summed EXCEPT !.best_difficulty = t.best_difficulty,
                                 !.best_nonce = t.best_nonce,
                                 !.best_hash = t.best_hash]
             ELSE summed
    ELSE a

\* JoinThread that goes on only past a thread that returned a record.
JoinThread_SomeOnly ==
    /\ pc = "join"
    /\ joinIdx < NumCores
    /\ th[joinIdx].pc = "done"
    /\ th[joinIdx].ret = "some"
    /\ acc' = Reduce(acc, th[joinIdx])
    /\ joinIdx' = joinIdx + 1
    /\ UNCHANGED <<config, flag, receiver, session, job, cutoff, clock, th>>

\* for h in handles { .. h.join() .. }: one handle, in core-id order
JoinThread ==
    /\ pc = "join"
    /\ joinIdx < NumCores
    /\ th[joinIdx].pc = "done"
    /\ acc' = Reduce(acc, th[joinIdx])
    /\ joinIdx' = joinIdx + 1
    /\ UNCHANGED <<config, flag, receiver, session, job, cutoff, clock, th>>

\* After the join loop: build the type-2 frame from best_hash and best_nonce,
\* whatever the threads returned; message_sender.lock().await returns and
\* message_sender.send(Message::Binary(bin_vec)) begins.
LockBestSolution ==
    /\ pc = "join"
    /\ joinIdx = NumCores
    /\ ~mutex
    /\ mutex' = TRUE
    /\ inflight' = Append(inflight, BestSolution(acc.best_hash, acc.best_nonce))
    /\ UNCHANGED <<config, flag, receiver, search, pc, outbound, dispatched,
                   lastAttempt>>

\* SendBestSolution with the guard kept after the send has returned.
SendBestSolution_KeepLock ==
    /\ pc = "join"
    /\ joinIdx = NumCores
    /\ mutex
    /\ inflight = <<BestSolution(acc.best_hash, acc.best_nonce)>>
    /\ inflight' = <<>>
    /\ mutex' = TRUE
    /\ outbound' = Append(outbound, BestSolution(acc.best_hash, acc.best_nonce))
    /\ pc' = "cooldown"
    /\ job' = NoJob
    /\ cutoff' = 0
    /\ clock' = 0
    /\ th' = [i \in CoreIds |-> Idle]
    /\ joinIdx' = 0
    /\ acc' = AccInit
    /\ UNCHANGED <<config, flag, receiver, dispatched, lastAttempt>>

\* The send of the BestSolution returns and the guard is dropped at the end
\* of its block. The locals of the search go out of scope with the match
\* arm.
SendBestSolution ==
    /\ pc = "join"
    /\ joinIdx = NumCores
    /\ mutex
    /\ inflight = <<BestSolution(acc.best_hash, acc.best_nonce)>>
    /\ inflight' = <<>>
    /\ mutex' = FALSE
    /\ outbound' = Append(outbound, BestSolution(acc.best_hash, acc.best_nonce))
    /\ pc' = "cooldown"
    /\ job' = NoJob
    /\ cutoff' = 0
    /\ clock' = 0
    /\ th' = [i \in CoreIds |-> Idle]
    /\ joinIdx' = 0
    /\ acc' = AccInit
    /\ UNCHANGED <<config, flag, receiver, dispatched, lastAttempt>>

\* tokio::time::sleep(5 + buffer), then message_sender.lock().await returns
\* and the send of the next Ready begins.
LockReadyAgain ==
    /\ pc = "cooldown"
    /\ ~mutex
    /\ mutex' = TRUE
    /\ inflight' = Append(inflight, Ready)
    /\ UNCHANGED <<config, flag, receiver, search, pc, outbound, dispatched,
                   lastAttempt>>

\* SendReadyAgain with the Ready after the cooldown left out.
SendReadyAgain_NoReady ==
    /\ pc = "cooldown"
    /\ mutex
    /\ inflight' = <<>>
    /\ mutex' = FALSE
    /\ pc' = "recv"
    /\ UNCHANGED <<config, flag, receiver, search, outbound, dispatched,
                   lastAttempt>>

\* The send of the Ready returns, the guard is dropped, back to recv().
SendReadyAgain ==
    /\ pc = "cooldown"
    /\ mutex
    /\ inflight = <<Ready>>
    /\ inflight' = <<>>
    /\ mutex' = FALSE
    /\ outbound' = Append(outbound, Ready)
    /\ pc' = "recv"
    /\ UNCHANGED <<config, flag, receiver, search, dispatched, lastAttempt>>

\* ------------------------------------------------------------ specification

Step ==
    \/ SupervisorLoop
    \/ FetchTimestamp
    \/ Connect
    \/ ReceiveMessage
    \/ TransportEnd
    \/ StartReady
    \/ SendReady
    \/ SessionDequeue
    \/ SessionChannelClosed
    \/ AwaitReceiver
    \/ \E i \in CoreIds : ThreadCheck(i)
    \/ \E i \in CoreIds : ThreadHash(i)
    \/ Tick
    \/ JoinThread
    \/ LockBestSolution
    \/ SendBestSolution
    \/ LockReadyAgain
    \/ SendReadyAgain

\* The program as written: an interrupt finds no handler.
Next == Step \/ Interrupt

Spec == Init /\ [][Next]_vars

\* The program with the shutdown hook its comments and the flag's checks
\* presuppose: the hook stores false into running when the interrupt comes.
ShutdownHook ==
    /\ ~interrupted
    /\ interrupted' = TRUE
    /\ running' = FALSE
    /\ UNCHANGED <<config, receiver, search, session>>

NextHook == Step \/ ShutdownHook

SpecHook == Init /\ [][NextHook]_vars

\* One step of the search thread of core i.
ThreadStep(i) == ThreadCheck(i) \/ ThreadHash(i)

\* The program as written, with its scheduling: every spawned OS thread
\* keeps being run, and the task running mine() goes on whenever the join
\* it blocks on can return, the frame it sends is handed over, or its sleep
\* is over. Nothing is assumed of the coordinator, the network or the clock.
Scheduling ==
    /\ \A i \in CoreIds : WF_vars(ThreadStep(i))
    /\ WF_vars(JoinThread)
    /\ WF_vars(LockBestSolution)
    /\ WF_vars(SendBestSolution)
    /\ WF_vars(LockReadyAgain)
    /\ WF_vars(SendReadyAgain)

SpecFair == Init /\ [][Next]_vars /\ Scheduling

\* ------------------------------------------------------------------ claims

IsSolution(f) == f.type = 2

\* The BestSolution frames of this connection, in the order sent: the k-th
\* one is the answer to dispatched[k].
Solutions == SelectSeq(outbound, IsSolution)

\* The threads that take part in the search: core id below args.threads.
Participants == {i \in CoreIds : i < threads}

\* C1: every BestSolution sent carries a nonce inside the nonce range of
\* the job it answers: start <= nonce < end.
C1_NonceInRange ==
    \A k \in 1 .. Len(Solutions) :
        /\ dispatched[k].start <= Solutions[k].nonce
        /\ Solutions[k].nonce < dispatched[k].end

\* C2: every BestSolution sent carries the digest of a hash computed from
\* the challenge of the job it answers and the nonce it carries; it is never
\* the default digest with a nonce no thread reported.
C2_DigestFromH ==
    \A k \in 1 .. Len(Solutions) :
        \E idx \in 1 .. 2 :
            Solutions[k].digest =
                <<dispatched[k].challenge, Solutions[k].nonce, idx>>

\* C3: the frames sent on a connection are Ready (BestSolution Ready)*:
\* the first is a Ready, and a job is taken from the channel only when
\* every job before it has had its one BestSolution and the one Ready
\* after it.
C3_OutboundOrder ==
    /\ \A k \in 1 .. Len(outbound) :
          outbound[k].type = (IF k % 2 = 1 THEN 0 ELSE 2)
    /\ Len(outbound) =
          CASE pc \in {"recv", "await_receiver"} -> 2 * Len(dispatched) + 1
            [] pc = "join" -> 2 * Len(dispatched) - 1
            [] pc = "cooldown" -> 2 * Len(dispatched)
            [] OTHER -> 0
    /\ pc \in {"loop_head", "fetch_timestamp", "connect", "send_ready"}
          => dispatched = <<>>

\* C3 witness: two jobs have been searched and answered on one connection.
C3_Witness ==
    /\ pc = "recv"
    /\ Len(dispatched) = 2
    /\ Len(outbound) = 5

\* A search thread that takes part has returned None: it saw the flag unset.
SawCancellation ==
    \E i \in Participants : th[i].pc = "done" /\ th[i].ret = "none"

\* C4: when the flag is set during a search, so that a thread gives up on
\* it, no BestSolution is sent for that job.
C4_NoSolutionAfterCancel ==
    [][(pc = "join" /\ SawCancellation) => outbound' = outbound]_vars

\* The session waits on the coordinator: for a job in recv(), or for the
\* receiver task to end.
SessionWaits ==
    /\ rx = "running"
    /\ \/ pc = "recv" /\ queue = <<>>
       \/ pc = "await_receiver"

\* C5: once the flag is set and one more inbound message has been handled
\* while the session waits, whatever the message's type, the session does
\* not wait for more from the coordinator before it returns to the
\* supervisor.
C5_ReturnsAfterOneFrame == (~running /\ lateFrame) => ~SessionWaits

\* C6: an interrupt sets the cancellation flag.
C6_InterruptSetsFlag == interrupted => ~running

\* min(55, max(0, cutoff - buffer))
ClampedCutoff(c, buf) ==
    LET d == IF c - buf > 0 THEN c - buf ELSE 0
    IN  IF d < 55 THEN d ELSE 55

\* C7: the cutoff the threads compare against is
\* min(55, max(0, job cutoff - buffer)).
C7_CutoffClamp == pc = "join" => cutoff = ClampedCutoff(job.cutoff, buffer)

\* C8: no thread is still searching later than cutoff_seconds +
\* buffer_seconds after the search began: a thread that goes on to its next
\* nonce does so no later than that.
C8_LifetimeBound ==
    [][\A i \in CoreIds :
          (pc = "join" /\ th[i].pc = "hash" /\ th'[i].pc = "loop")
              => clock <= job.cutoff + buffer]_vars

\* C9: handling a malformed binary frame (unknown type, or type 0 and too
\* short for the StartMining layout) dispatches nothing and leaves the
\* receiver task consuming.
C9_MalformedDropped ==
    [][\A msg \in MalformedMessages :
          Handle(msg) => (rx' = "running" /\ queue' = queue)]_vars

\* C10: once the receiver task has handled a Close, no job is taken from
\* the channel and searched.
C10_NoDispatchAfterClose ==
    [][rx = "closed" => Len(dispatched') <= Len(dispatched)]_vars

\* C11: a timestamp fetch is followed by the connection attempt only when
\* the response has a 2xx status and a body that parses as an unsigned
\* integer; a non-2xx response, whatever its body, sends the supervisor
\* back to fetch again.
C11_ConnectOnly2xx ==
    [][\A resp \in TimestampResponses :
          (TimestampFetch(resp) /\ pc' = "connect")
              => (resp.sent /\ resp.status \in 200 .. 299
                  /\ ParseU64(resp.body).ok)]_vars

\* C12: while the flag is unset the supervisor does not leave its loop;
\* a failed timestamp fetch, a failed connect and the end of a session each
\* lead back to the head of the loop, the head of the loop leads to a
\* timestamp fetch, and a connection attempt is made only straight from a
\* timestamp fetch.
C12_RetriesFromTimestamp ==
    [][/\ running => pc' # "exited"
       /\ (pc' = "connect" /\ pc # "connect") => pc = "fetch_timestamp"
       /\ (pc = "loop_head" /\ running /\ pc' # pc) => pc' = "fetch_timestamp"
       /\ (pc = "fetch_timestamp" /\ pc' \notin {pc, "connect"}) => pc' = "loop_head"
       /\ (pc = "connect" /\ pc' \notin {pc, "send_ready"}) => pc' = "loop_head"
       /\ (pc = "await_receiver" /\ pc' # pc) => pc' = "loop_head"]_vars

\* C12 witness: after a session has ended, with the flag unset, a fresh
\* timestamp has been fetched and the next connection attempt is due.
C12_Witness == running /\ pc = "connect" /\ lastAttempt = "session"

\* C13: every job taken from the channel is followed, with no cancellation,
\* by the end of its search, its BestSolution and the Ready after it: a
\* search under way leads to the session back in recv() with one
\* BestSolution per job taken and a Ready after the last, whatever the
\* hashes.
C13_SearchEnds ==
    (pc = "join")
        ~> (/\ pc = "recv"
            /\ Len(dispatched) > 0
            /\ Len(outbound) = 2 * Len(dispatched) + 1
            /\ outbound[Len(outbound) - 1].type = 2
            /\ outbound[Len(outbound)].type = 0)

\* C13 witness: a thread with no hash of difficulty 8 or more searched past
\* the cutoff and stopped at the end of its range, every thread has been
\* joined and the BestSolution is due.
C13_Witness ==
    /\ running
    /\ pc = "join"
    /\ joinIdx = NumCores
    /\ clock > cutoff
    /\ acc.best_difficulty < MinDifficulty
    /\ acc.total_nonces_checked > 0

\* The threads joined so far that returned a record.
JoinedWithRecord == {i \in CoreIds : i < joinIdx /\ th[i].ret = "some"}

\* C14: the best difficulty of the reduction is at least the difficulty of
\* every hash evaluated by a joined thread that returned a record, and no
\* step of a thread lowers its local best difficulty.
C14_BestIsMax ==
    [][/\ pc = "join" =>
            \A i \in JoinedWithRecord : acc.best_difficulty >= th[i].hardest
       /\ \A i \in CoreIds :
            (th[i].pc \in {"loop", "hash"} /\ th'[i].pc # "idle")
                => th'[i].best_difficulty >= th[i].best_difficulty]_vars

\* C14 witness: both threads returned a record and are joined, the second
\* with a lower best than the first, which found a hash above the floor.
C14_Witness ==
    /\ pc = "join"
    /\ joinIdx = NumCores
    /\ JoinedWithRecord = CoreIds
    /\ th[0].hardest > th[1].hardest
    /\ th[1].hardest > 0
    /\ acc.best_difficulty >= MinDifficulty

\* The StartMining frame a job stands for.
FrameOf(j) ==
    <<0>> \o j.challenge \o LeBytes(j.cutoff, 8) \o LeBytes(j.start, 8)
          \o LeBytes(j.end, 8)

\* C15: a well-formed StartMining frame read by the receiver task puts its
\* one job at the tail of the channel and any other message puts nothing;
\* beyond that the channel and the jobs searched change only by the session
\* taking the job at the head of the channel into the search, or by the
\* connection being set up or given up with the channel empty. So what was
\* read is searched once each, in the order read.
C15_FifoExactlyOnce ==
    [][/\ (rx = "running" /\ queue' = queue /\ UNCHANGED <<search, session>>)
            => \A msg \in GoodMessages : ~Handle(msg)
       /\ (queue' # queue \/ dispatched' # dispatched)
            => \/ /\ dispatched' = dispatched
                  /\ Len(queue') = Len(queue) + 1
                  /\ SubSeq(queue', 1, Len(queue)) = queue
                  /\ \E msg \in GoodMessages :
                        /\ FrameOf(queue'[Len(queue')]) = msg.data
                        /\ Handle(msg)
               \/ /\ queue # <<>>
                  /\ queue' = Tail(queue)
                  /\ dispatched' = Append(dispatched, Head(queue))
               \/ /\ pc \in {"connect", "await_receiver"}
                  /\ queue = <<>>
                  /\ queue' = <<>>
                  /\ dispatched' = <<>>]_vars

\* C15 witness: a second, different job was read and waits in the channel
\* while the search of the first runs.
C15_Witness ==
    /\ running
    /\ pc = "join"
    /\ dispatched = <<StartMiningParse(FrameB).send[1]>>
    /\ queue = <<StartMiningParse(FrameA).send[1]>>

\* C16: at most one frame is being written to the sender at any time; the
\* Mutex is locked only while one frame is being written, and the step
\* that ends the write hands over that one frame and unlocks it.
C16_OneWriter ==
    [][/\ Len(inflight) <= 1
       /\ mutex => Len(inflight) = 1
       /\ (mutex /\ inflight' # inflight)
            => (/\ ~mutex'
                /\ inflight' = <<>>
                /\ outbound' = Append(outbound, inflight[1]))]_vars

\* C16 witness: the BestSolution of a job is being written under the lock,
\* after the first Ready went out with no lock.
C16_Witness ==
    /\ pc = "join"
    /\ mutex
    /\ Len(inflight) = 1
    /\ inflight[1].type = 2
    /\ outbound = <<Ready>>

\* The hashes evaluated by the threads of cores 0 .. n-1, by their own count.
RECURSIVE HashesOfThreads(_)
HashesOfThreads(n) ==
    IF n = 0 THEN 0 ELSE th[n - 1].total_hashes + HashesOfThreads(n - 1)

\* C17: when every thread of a search has been joined, the total the
\* session reports as processed is the sum over all threads of the search
\* of the hashes each evaluated.
C17_ProcessedIsSum ==
    (pc = "join" /\ joinIdx = NumCores)
        => acc.total_nonces_checked = HashesOfThreads(NumCores)

\* C17 witness: two threads took part, each evaluated hashes, one of them
\* more than one, and all are joined.
C17_Witness ==
    /\ pc = "join"
    /\ joinIdx = NumCores
    /\ threads = NumCores
    /\ \A i \in CoreIds : th[i].total_hashes > 0
    /\ \E i \in CoreIds : th[i].total_hashes > 2
    /\ acc.total_nonces_checked > 3

\* The thread of core i, at nonce n with local best b after hashing it, is
\* at a check of the cutoff where both conditions of the early stop hold.
EarlyStopDue(n, b) == n % 100 = 0 /\ clock >= cutoff /\ b >= 8

C19_HashedInRange ==
    [][\A i \in CoreIds :
          (pc = "join" /\ th[i].pc = "hash"
              /\ th'[i].total_hashes > th[i].total_hashes)
              => /\ job.start + i * 10000 <= th[i].nonce
                 /\ th[i].nonce < job.end]_vars

\* The type-0 binary frames the length test of process_message lets through.
AcceptedStartMining ==
    {msg \in InboundMessages :
        /\ msg.kind = "Binary"
        /\ Len(msg.data) >= 49
        /\ msg.data[1] = 0}

\* The job the StartMining layout gives for the bytes b (0-based offsets
\* 1..32, 33..40, 41..48, 49..56).
LayoutJob(b) ==
    [challenge |-> SubSeq(b, 2, 33),
     cutoff |-> FromLeBytes(SubSeq(b, 34, 41)),
     start |-> FromLeBytes(SubSeq(b, 42, 49)),
     end |-> FromLeBytes(SubSeq(b, 50, 57))]

\* C20: handling a type-0 frame that passes the length test reads no byte
\* past the end of the frame, so the receiver task goes on, and puts into
\* the channel the job whose fields are the frame's bytes 1..32, 33..40,
\* 41..48 and 49..56, the last three as little-endian integers.
C20_DecodeInFrame ==
    [][(rx = "running" /\ UNCHANGED <<search, session>>) =>
          \A msg \in AcceptedStartMining :
              Handle(msg) => /\ rx' = "running"
                             /\ Len(msg.data) >= 57
                             /\ queue' = Append(queue, LayoutJob(msg.data))]_vars

====
